---- MODULE Spec2Model ----
(***************************************************************************)
(* Model of volumetric_mapping::OctomapManager                             *)
(* (octomap_world/src/octomap_manager.cc): start-up configuration, the     *)
(* stereo calibration latch (Q_, Q_initialized_), the TF lookup policy and *)
(* the dispatch of disparity images and point clouds to the mapping        *)
(* engine.                                                                 *)
(***************************************************************************)
EXTENDS Integers, Sequences, FiniteSets, TLC

\* ------------------------------------------------------------------ bounds
\* Longest coefficient list the parameter server offers for "Q".
MaxQLen == 17
\* Largest time stamp of a TF entry; messages may be one tick newer, and
\* time 0 asks the provider for its latest entry.
MaxTime == 2
\* Most TF entries the transform provider holds.
MaxTf == 2
\* Ceiling of the calculateQ execution counter.
MaxCalcQ == 2
\* Clock ticks in one second, and ticks the clock advances after start-up.
TicksPerSecond == 2
ClockTicks == 3

\* ------------------------------------------------------- program constants
QSize == 16
DefaultWidth == 752
DefaultHeight == 480
CfgWidth == 640
CfgHeight == 360
\* Period, in seconds, of the throttled "no camera info" warning.
ThrottleSeconds == 1

\* --------------------------------------------------------------- data sets
WorldFrames == {"world", "map"}
SensorFrames == {"cam0", "lidar"}
Stamps == 0..(MaxTime + 1)
TfTimes == 1..MaxTime

FrameNo(f) ==
  CASE f = "world" -> 1
    [] f = "map" -> 2
    [] f = "cam0" -> 3
    [] OTHER -> 4

\* Frame messages (header only; the payload travels with the message).
Msgs == [frame_id : SensorFrames, stamp : Stamps]
NoMsg == [frame_id |-> "", stamp |-> 0]

\* sensor_msgs::CameraInfo as far as the manager and the derivation read it.
NullInfo == [valid |-> FALSE, width |-> 0, height |-> 0, fx |-> 0, fy |-> 0,
             cx |-> 0, cy |-> 0, Tx |-> 0]
MkInfo(w, h, f, cx, cy, tx) ==
  [valid |-> TRUE, width |-> w, height |-> h, fx |-> f, fy |-> f,
   cx |-> cx, cy |-> cy, Tx |-> tx]
LeftInfos == {MkInfo(752, 480, 500, 376, 240, 0), MkInfo(640, 400, 450, 320, 200, 0)}
RightInfos == {MkInfo(752, 480, 500, 376, 240, 120), MkInfo(640, 400, 450, 330, 200, 110)}

\* ---------------------------------------------------------------- matrices
\* An Eigen::Matrix4d is its column-major coefficient storage: coefficient
\* (i,j), i,j in 0..3, lives at storage index 4*j + i.
Coeff(M, i, j) == M[4 * j + i + 1]
Identity4 == [k \in 1..16 |-> IF (k - 1) \div 4 = (k - 1) % 4 THEN 1 ELSE 0]
\* Storage of the matrix whose coefficient (i,j) is f[i][j].
FromCoeffs(f) == [k \in 1..16 |-> f[(k - 1) % 4][(k - 1) \div 4]]

\* Eigen::Map<Matrix<double,4,4,RowMajor>> over data: coefficient (i,j) is
\* data[4*i + j]; assignment to a Matrix4d copies coefficient by coefficient.
RowMajorMap(data) ==
  FromCoeffs([i \in 0..3 |-> [j \in 0..3 |-> data[4 * i + j + 1]]])
ColMajorMap(data) ==
  FromCoeffs([i \in 0..3 |-> [j \in 0..3 |-> data[4 * j + i + 1]]])

\* ------------------------------------------------------- parameter server
\* A private parameter is either absent or set to a value.
Absent(dflt) == [set |-> FALSE, val |-> dflt]
Given(v) == [set |-> TRUE, val |-> v]
\* nh_private_.param(name, var, default): the value when set, else default.
Param(p, dflt) == IF p.set THEN p.val ELSE dflt

\* Coefficient lists offered for "Q": for every length two value patterns,
\* neither of them a symmetric matrix at length 16.
QVecUp(n) == [k \in 1..n |-> k]
QVecDown(n) == [k \in 1..n |-> 2 * (MaxQLen + 1 - k)]
QVecs == {QVecUp(n) : n \in 0..MaxQLen} \cup {QVecDown(n) : n \in 0..MaxQLen}

\* ------------------------------------------------------------ log messages
ErrInvalidQ == "Invalid Q matrix size"
WarnNoCameraInfo == "No camera info available yet"
WarnLatestTf == "Using latest TF transform instead of timestamp match."
ErrTf == "Error getting TF transform from sensor data"

\* ------------------------------------------------------------ calibration
\* setQFromParams(&Q_vec) run on a manager whose matrix is Q: the returned
\* flag, the matrix afterwards and what was logged.
setQFromParams_AtLeast(Q, Q_vec) ==
  IF Len(Q_vec) < QSize
    THEN [ret |-> FALSE, Q |-> Q, log |-> {ErrInvalidQ}]
    ELSE [ret |-> TRUE, Q |-> RowMajorMap(Q_vec), log |-> {}]
setQFromParams_ColMajor(Q, Q_vec) ==
  IF Len(Q_vec) # QSize
    THEN [ret |-> FALSE, Q |-> Q, log |-> {ErrInvalidQ}]
    ELSE [ret |-> TRUE, Q |-> ColMajorMap(Q_vec), log |-> {}]
setQFromParams(Q, Q_vec) ==
  IF Len(Q_vec) # QSize
    THEN [ret |-> FALSE, Q |-> Q, log |-> {ErrInvalidQ}]
    ELSE [ret |-> TRUE, Q |-> RowMajorMap(Q_vec), log |-> {}]

\* getQForROSCameras(left, right): the stereo reprojection matrix built from
\* the left focal lengths and principal point, the right principal point and
\* the baseline Tx carried by the right camera.
getQForROSCameras(left, right) ==
  LET Tx == right.Tx
      f == [i \in 0..3 |-> [j \in 0..3 |->
              CASE i = 0 /\ j = 0 -> left.fy * Tx
                [] i = 0 /\ j = 3 -> 0 - left.fy * left.cx * Tx
                [] i = 1 /\ j = 1 -> left.fx * Tx
                [] i = 1 /\ j = 3 -> 0 - left.fx * left.cy * Tx
                [] i = 2 /\ j = 3 -> left.fx * left.fy * Tx
                [] i = 3 /\ j = 2 -> 0 - left.fy
                [] i = 3 /\ j = 3 -> left.fy * (left.cx - right.cx)
                [] OTHER -> 0]]
  IN FromCoeffs(f)

\* The test both camera-info callbacks make before deriving the matrix.
NeedsQ_NoLatch(left, right, initialized) == left.valid /\ right.valid
NeedsQ_EitherSide(left, right, initialized) ==
  (left.valid \/ right.valid) /\ ~initialized
NeedsQ(left, right, initialized) ==
  left.valid /\ right.valid /\ ~initialized

\* calculateQ(): the values it leaves in Q_, full_image_size_, Q_initialized_.
calculateQ_RightSize(left, right) ==
  [Q |-> getQForROSCameras(left, right),
   size |-> <<right.width, right.height>>,
   initialized |-> TRUE]
calculateQ(left, right) ==
  [Q |-> getQForROSCameras(left, right),
   size |-> <<left.width, left.height>>,
   initialized |-> TRUE]

\* ------------------------------------------------------ transform provider
\* The provider holds stamped entries <<parent, child, stamp>>.  A transform
\* is known in both directions of an entry (the reverse one is its inverse).
\* The camera frame is published against either world frame; the other sensor
\* frame is never connected to the tree.
TfChildren == {"cam0"}
TfEntries == WorldFrames \X TfChildren \X TfTimes
PoseOf(parent, child, t) == 100 * FrameNo(parent) + 10 * FrameNo(child) + t
TfStamps(buf, to, from) ==
  {t \in TfTimes : <<to, from, t>> \in buf \/ <<from, to, t>> \in buf}
MaxOf(S) == CHOOSE m \in S : \A x \in S : x <= m
\* Between two entries the provider interpolates; it does not extrapolate.
TfCovers(buf, to, from, t) ==
  \E a, b \in TfStamps(buf, to, from) : a <= t /\ t <= b
\* tf_listener_.canTransform(to, from, t)
canTransform(buf, to, from, t) ==
  IF t = 0 THEN TfStamps(buf, to, from) # {} ELSE TfCovers(buf, to, from, t)
\* tf_listener_.lookupTransform(to, from, t, out): thrown is TRUE when it
\* raises tf::TransformException, else out is the stamped transform, for
\* time zero that of the newest entry.
tfLookup(buf, to, from, t) ==
  IF ~canTransform(buf, to, from, t)
    THEN [thrown |-> TRUE, frame_id |-> to, child_frame_id |-> from,
          stamp |-> 0, pose |-> 0]
    ELSE LET s == IF t = 0 THEN MaxOf(TfStamps(buf, to, from)) ELSE t
             forward == \E e \in buf : e[1] = to /\ e[2] = from
         IN [thrown |-> FALSE, frame_id |-> to, child_frame_id |-> from,
             stamp |-> s,
             pose |-> IF forward THEN PoseOf(to, from, s)
                      ELSE 0 - PoseOf(from, to, s)]
\* tf::transformTFToKindr keeps the rigid transform and drops the header.
transformTFToKindr(tf_transform) == tf_transform.pose
NoTransform == 0

Query(fn, to, from, t) == [fn |-> fn, to |-> to, from |-> from, time |-> t]

\* lookupTransform(from_frame, to_frame, timestamp, &transform): the returned
\* flag, the transform written on success, the log lines and the provider
\* queries issued, in order.
lookupTransform_NoFallback(buf, from_frame, to_frame, timestamp) ==
  LET can == canTransform(buf, to_frame, from_frame, timestamp)
      res == tfLookup(buf, to_frame, from_frame, timestamp)
      queries == <<Query("canTransform", to_frame, from_frame, timestamp),
                   Query("lookupTransform", to_frame, from_frame, timestamp)>>
  IN IF res.thrown
       THEN [ret |-> FALSE, transform |-> NoTransform, log |-> {ErrTf},
             queries |-> queries]
       ELSE [ret |-> TRUE, transform |-> transformTFToKindr(res), log |-> {},
             queries |-> queries]
lookupTransform_Retry(buf, from_frame, to_frame, timestamp) ==
  LET r == lookupTransform_NoFallback(buf, from_frame, to_frame, timestamp)
      again == tfLookup(buf, to_frame, from_frame, 0)
      queries == r.queries \o
                 <<Query("lookupTransform", to_frame, from_frame, 0)>>
  IN IF r.ret THEN r
     ELSE IF again.thrown
       THEN [ret |-> FALSE, transform |-> NoTransform, log |-> {ErrTf},
             queries |-> queries]
       ELSE [ret |-> TRUE, transform |-> transformTFToKindr(again),
             log |-> {WarnLatestTf}, queries |-> queries]
lookupTransform_SwappedFrames(buf, from_frame, to_frame, timestamp) ==
  LET can == canTransform(buf, from_frame, to_frame, timestamp)
      time_to_lookup == IF can THEN timestamp ELSE 0
      warn == IF can THEN {} ELSE {WarnLatestTf}
      res == tfLookup(buf, from_frame, to_frame, time_to_lookup)
      queries == <<Query("canTransform", from_frame, to_frame, timestamp),
                   Query("lookupTransform", from_frame, to_frame,
                         time_to_lookup)>>
  IN IF res.thrown
       THEN [ret |-> FALSE, transform |-> NoTransform,
             log |-> warn \cup {ErrTf}, queries |-> queries]
       ELSE [ret |-> TRUE, transform |-> transformTFToKindr(res),
             log |-> warn, queries |-> queries]
\* lookupTransform from line 248 on, can being what canTransform answered.
lookupTransformFrom(buf, from_frame, to_frame, timestamp, can) ==
  LET time_to_lookup == IF can THEN timestamp ELSE 0
      warn == IF can THEN {} ELSE {WarnLatestTf}
      res == tfLookup(buf, to_frame, from_frame, time_to_lookup)
      queries == <<Query("canTransform", to_frame, from_frame, timestamp),
                   Query("lookupTransform", to_frame, from_frame,
                         time_to_lookup)>>
  IN IF res.thrown
       THEN [ret |-> FALSE, transform |-> NoTransform,
             log |-> warn \cup {ErrTf}, queries |-> queries]
       ELSE [ret |-> TRUE, transform |-> transformTFToKindr(res),
             log |-> warn, queries |-> queries]
lookupTransform(buf, from_frame, to_frame, timestamp) ==
  lookupTransformFrom(buf, from_frame, to_frame, timestamp,
                      canTransform(buf, to_frame, from_frame, timestamp))

\* ---------------------------------------------------------- mapping engine
NoCall == [fn |-> "none", T |-> NoTransform, msg |-> NoMsg, Q |-> <<>>,
           size |-> <<>>]
insertDisparityImage(T, disparity, Q, size) ==
  [fn |-> "insertDisparityImage", T |-> T, msg |-> disparity, Q |-> Q,
   size |-> size]
insertPointcloud(T, pointcloud) ==
  [fn |-> "insertPointcloud", T |-> T, msg |-> pointcloud, Q |-> <<>>,
   size |-> <<>>]

\* What one dispatch did: whether lookupTransform ran and returned true, the
\* log lines, the provider queries and the call made into the engine.
Dropped(log) ==
  [looked |-> FALSE, ret |-> FALSE, log |-> log, queries |-> <<>>,
   call |-> NoCall]
Looked_Unchecked(r, call) ==
  [looked |-> TRUE, ret |-> r.ret, log |-> r.log, queries |-> r.queries,
   call |-> call]
Looked(r, call) ==
  [looked |-> TRUE, ret |-> r.ret, log |-> r.log, queries |-> r.queries,
   call |-> IF r.ret THEN call ELSE NoCall]

\* ROS_WARN_THROTTLE(period, ...): the line is logged, and the time of the
\* hit kept, when a period has passed since the last hit.
ThrottlePeriod == ThrottleSeconds * TicksPerSecond
ThrottleHit_Always(t, last, period) == TRUE
ThrottleHit(t, last, period) == last + period <= t

\* Body of insertDisparityImageWithTf(disparity); hit tells whether the
\* throttle of the not-ready warning lets the line through.
DispatchDisparity_NoGate(initialized, buf, world, Q, size, disparity, hit) ==
  LET r == lookupTransform(buf, disparity.frame_id, world, disparity.stamp)
  IN Looked(r, insertDisparityImage(r.transform, disparity, Q, size))
DispatchDisparity(initialized, buf, world, Q, size, disparity, hit) ==
  IF ~initialized
    THEN Dropped(IF hit THEN {WarnNoCameraInfo} ELSE {})
    ELSE LET r == lookupTransform(buf, disparity.frame_id, world,
                                  disparity.stamp)
         IN Looked(r, insertDisparityImage(r.transform, disparity, Q, size))

\* Body of insertPointcloudWithTf(pointcloud).
DispatchPointcloud_Gated(initialized, buf, world, pointcloud) ==
  IF ~initialized
    THEN Dropped({})
    ELSE LET r == lookupTransform(buf, pointcloud.frame_id, world,
                                  pointcloud.stamp)
         IN Looked(r, insertPointcloud(r.transform, pointcloud))
DispatchPointcloud(initialized, buf, world, pointcloud) ==
  LET r == lookupTransform(buf, pointcloud.frame_id, world, pointcloud.stamp)
  IN Looked(r, insertPointcloud(r.transform, pointcloud))

\* ------------------------------------------------------------------- state
VARIABLES
  pc,                \* "init": members initialised, constructor body not run
  params,            \* the private parameters the node was started with
  world_frame_, Q_initialized_, Q_, full_image_size_,
  left_info_, right_info_,
  tfBuf,             \* entries held by tf_listener_
  leftSeen, rightSeen,  \* a camera-info message was delivered on that side
  nCalcQ,            \* executions of calculateQ so far
  ev,                \* what the latest step did
  now,               \* ros::Time::now(), in ticks
  last_hit,          \* time of the last "no camera info" warning logged
  handles,           \* service-handle member -> name of the service it holds
  lthr, rthr, fthr   \* a callback in progress: left info, right info, frame

vars == <<pc, params, world_frame_, Q_initialized_, Q_, full_image_size_,
          left_info_, right_info_, tfBuf, leftSeen, rightSeen, nCalcQ, ev,
          now, last_hit, handles, lthr, rthr, fthr>>

threads == <<lthr, rthr, fthr>>

calib == <<Q_initialized_, Q_, full_image_size_>>

\* ready and had are read on entry: Q_initialized_, and for a camera-info
\* callback whether its side already held a descriptor.
EventOf(op, msg, info, ready, d, calc, had) ==
  [op |-> op, msg |-> msg, info |-> info, ready |-> ready,
   looked |-> d.looked, ret |-> d.ret, log |-> d.log, queries |-> d.queries,
   call |-> d.call, calc |-> calc, had |-> had]
\* An event that delivered no camera info.
Event(op, msg, ready, d, calc, had) ==
  EventOf(op, msg, NullInfo, ready, d, calc, had)

\* ------------------------------------------------------------- services
HandleMembers == {"reset_map_service_", "publish_all_service_",
                  "get_map_service_", "save_octree_service_",
                  "load_octree_service_"}
ServiceNames == {"reset_map", "publish_all", "get_map", "save_map",
                 "load_map", "set_box_occupancy"}
NoService == ""
\* member = nh_private_.advertiseService(name, ...): the member now holds the
\* handle of that service and lets go of the one it held.
Advertise(h, member, name) == [h EXCEPT ![member] = name]
\* advertiseServices(): the six assignments, in order.
advertiseServices(h) ==
  LET h1 == Advertise(h, "reset_map_service_", "reset_map")
      h2 == Advertise(h1, "publish_all_service_", "publish_all")
      h3 == Advertise(h2, "get_map_service_", "get_map")
      h4 == Advertise(h3, "save_octree_service_", "save_map")
      h5 == Advertise(h4, "load_octree_service_", "load_map")
  IN Advertise(h5, "load_octree_service_", "set_box_occupancy")

\* ------------------------------------------------- callbacks in progress
Idle == [at |-> "idle", msg |-> NoMsg, op |-> "", ready |-> FALSE,
         can |-> FALSE]

QParamsAll == {Absent(<<>>)} \cup {Given(v) : v \in QVecs}
QParamsFew == {Absent(<<>>), Given(QVecDown(QSize))}

ParamSets(QParams) ==
  [tf_frame : {Absent(""), Given("map")},
   full_image_width : {Absent(0), Given(CfgWidth)},
   full_image_height : {Absent(0), Given(CfgHeight)},
   Q : QParams]
\* Start-ups that set the frame and both image dimensions, or none of them.
AllOrNone(p) ==
  /\ p.full_image_width.set = p.tf_frame.set
  /\ p.full_image_height.set = p.tf_frame.set

\* The member initialisers of the constructor.
Members(Starts) ==
  /\ pc = "init"
  /\ params \in Starts
  /\ world_frame_ = "world"
  /\ Q_initialized_ = FALSE
  /\ Q_ = Identity4
  /\ full_image_size_ = <<DefaultWidth, DefaultHeight>>
  /\ left_info_ = NullInfo
  /\ right_info_ = NullInfo
  /\ tfBuf = {}
  /\ leftSeen = FALSE
  /\ rightSeen = FALSE
  /\ nCalcQ = 0
  /\ ev = Event("init", NoMsg, FALSE, Dropped({}), FALSE, FALSE)
  /\ now = ThrottlePeriod
  /\ last_hit = 0
  /\ handles = [m \in HandleMembers |-> NoService]
  /\ lthr = Idle
  /\ rthr = Idle
  /\ fthr = Idle

Init == Members({p \in ParamSets(QParamsFew) : AllOrNone(p)})
InitQ == Members(ParamSets(QParamsAll))

\* The constructor body: setParametersFromROS(), then subscribe() lets the
\* callbacks run, then advertiseServices().
Construct ==
  /\ pc = "init"
  /\ pc' = "run"
  /\ world_frame_' = Param(params.tf_frame, world_frame_)
  /\ full_image_size_' = <<Param(params.full_image_width, full_image_size_[1]),
                           Param(params.full_image_height, full_image_size_[2])>>
  /\ IF params.Q.set
       THEN LET r == setQFromParams(Q_, params.Q.val)
            IN /\ Q_initialized_' = r.ret
               /\ Q_' = r.Q
               /\ ev' = Event("construct", NoMsg, Q_initialized_,
                              Dropped(r.log), FALSE, FALSE)
       ELSE /\ UNCHANGED <<Q_initialized_, Q_>>
            /\ ev' = Event("construct", NoMsg, Q_initialized_, Dropped({}),
                           FALSE, FALSE)
  /\ handles' = advertiseServices(handles)
  /\ UNCHANGED <<params, left_info_, right_info_, tfBuf, leftSeen, rightSeen,
                 nCalcQ, now, last_hit, threads>>

\* What both camera-info callbacks do once the descriptor is stored.
AfterInfo(op, left, right, had) ==
  IF NeedsQ(left, right, Q_initialized_)
    THEN LET c == calculateQ(left, right)
         IN /\ nCalcQ < MaxCalcQ
            /\ Q_' = c.Q
            /\ full_image_size_' = c.size
            /\ Q_initialized_' = c.initialized
            /\ nCalcQ' = nCalcQ + 1
            /\ ev' = EventOf(op, NoMsg, IF op = "left" THEN left ELSE right,
                             Q_initialized_, Dropped({}), TRUE, had)
    ELSE /\ UNCHANGED <<calib, nCalcQ>>
         /\ ev' = EventOf(op, NoMsg, IF op = "left" THEN left ELSE right,
                          Q_initialized_, Dropped({}), FALSE, had)

leftCameraInfoCallback_IgnoredWhenReady(left_info) ==
  IF Q_initialized_
    THEN /\ pc = "run"
         /\ leftSeen' = TRUE
         /\ ev' = EventOf("left", NoMsg, left_info, Q_initialized_,
                          Dropped({}), FALSE, left_info_.valid)
         /\ UNCHANGED <<pc, params, world_frame_, calib, left_info_,
                        right_info_, tfBuf, rightSeen, nCalcQ, now, last_hit,
                        handles, threads>>
    ELSE /\ pc = "run"
         /\ left_info_' = left_info
         /\ leftSeen' = TRUE
         /\ AfterInfo("left", left_info, right_info_, left_info_.valid)
         /\ UNCHANGED <<pc, params, world_frame_, right_info_, tfBuf,
                        rightSeen, now, last_hit, handles, threads>>
leftCameraInfoCallback(left_info) ==
  /\ pc = "run"
  /\ left_info_' = left_info
  /\ leftSeen' = TRUE
  /\ AfterInfo("left", left_info, right_info_, left_info_.valid)
  /\ UNCHANGED <<pc, params, world_frame_, right_info_, tfBuf, rightSeen,
                 now, last_hit, handles, threads>>

rightCameraInfoCallback(right_info) ==
  /\ pc = "run"
  /\ right_info_' = right_info
  /\ rightSeen' = TRUE
  /\ AfterInfo("right", left_info_, right_info, right_info_.valid)
  /\ UNCHANGED <<pc, params, world_frame_, left_info_, tfBuf, leftSeen,
                 now, last_hit, handles, threads>>

insertDisparityImageWithTf_DropsInfo(disparity) ==
  LET hit == ThrottleHit(now, last_hit, ThrottlePeriod)
      d == DispatchDisparity(Q_initialized_, tfBuf, world_frame_, Q_,
                             full_image_size_, disparity, hit)
  IN /\ pc = "run"
     /\ ev' = Event("disparity", disparity, Q_initialized_, d, FALSE, FALSE)
     /\ last_hit' = IF WarnNoCameraInfo \in d.log THEN now ELSE last_hit
     /\ left_info_' = IF Q_initialized_ THEN left_info_ ELSE NullInfo
     /\ UNCHANGED <<pc, params, world_frame_, calib, right_info_,
                    tfBuf, leftSeen, rightSeen, nCalcQ, now, handles,
                    threads>>
insertDisparityImageWithTf(disparity) ==
  LET hit == ThrottleHit(now, last_hit, ThrottlePeriod)
      d == DispatchDisparity(Q_initialized_, tfBuf, world_frame_, Q_,
                             full_image_size_, disparity, hit)
  IN /\ pc = "run"
     /\ ev' = Event("disparity", disparity, Q_initialized_, d, FALSE, FALSE)
     /\ last_hit' = IF WarnNoCameraInfo \in d.log THEN now ELSE last_hit
     /\ UNCHANGED <<pc, params, world_frame_, calib, left_info_, right_info_,
                    tfBuf, leftSeen, rightSeen, nCalcQ, now, handles,
                    threads>>

insertPointcloudWithTf(pointcloud) ==
  /\ pc = "run"
  /\ ev' = Event("pointcloud", pointcloud, Q_initialized_,
                 DispatchPointcloud(Q_initialized_, tfBuf, world_frame_,
                                    pointcloud), FALSE, FALSE)
  /\ UNCHANGED <<pc, params, world_frame_, calib, left_info_, right_info_,
                 tfBuf, leftSeen, rightSeen, nCalcQ, now, last_hit, handles,
                 threads>>

\* The provider receives one more stamped transform.
TfPublish(e) ==
  /\ pc = "run"
  /\ e \notin tfBuf
  /\ Cardinality(tfBuf) < MaxTf
  /\ tfBuf' = tfBuf \cup {e}
  /\ ev' = Event("tf", NoMsg, Q_initialized_, Dropped({}), FALSE, FALSE)
  /\ UNCHANGED <<pc, params, world_frame_, calib, left_info_, right_info_,
                 leftSeen, rightSeen, nCalcQ, now, last_hit, handles,
                 threads>>

LeftArrival == \E i \in LeftInfos : leftCameraInfoCallback(i)
RightArrival == \E i \in RightInfos : rightCameraInfoCallback(i)
DisparityArrival == \E m \in Msgs : insertDisparityImageWithTf(m)
PointcloudArrival == \E m \in Msgs : insertPointcloudWithTf(m)
TfArrival == \E e \in TfEntries : TfPublish(e)

Next ==
  \/ Construct
  \/ LeftArrival
  \/ RightArrival
  \/ DisparityArrival
  \/ PointcloudArrival
  \/ TfArrival

Spec == Init /\ [][Next]_vars

\* The calibration resolver alone, over every offered coefficient list.
NextQ ==
  \/ Construct
  \/ LeftArrival
  \/ RightArrival

SpecQ == InitQ /\ [][NextQ]_vars

\* ------------------------------------------- statement-level interleaving
\* The callbacks below run one statement per step, as they do when the
\* subscriptions are served by several threads: one thread per camera-info
\* subscription and one for the frames.
Step == Event("step", NoMsg, FALSE, Dropped({}), FALSE, FALSE)
At(thr, at) == [thr EXCEPT !.at = at]

\* Line 191: left_info_ = left_info.
LeftStore(left_info) ==
  /\ pc = "run"
  /\ lthr.at = "idle"
  /\ left_info_' = left_info
  /\ leftSeen' = TRUE
  /\ lthr' = At(lthr, "test")
  /\ ev' = Step
  /\ UNCHANGED <<pc, params, world_frame_, calib, right_info_, tfBuf,
                 rightSeen, nCalcQ, now, last_hit, handles, rthr, fthr>>

\* Line 198: right_info_ = right_info.
RightStore(right_info) ==
  /\ pc = "run"
  /\ rthr.at = "idle"
  /\ right_info_' = right_info
  /\ rightSeen' = TRUE
  /\ rthr' = At(rthr, "test")
  /\ ev' = Step
  /\ UNCHANGED <<pc, params, world_frame_, calib, left_info_, tfBuf,
                 leftSeen, nCalcQ, now, last_hit, handles, lthr, fthr>>

\* Lines 192-194 / 199-201 and the four statements of calculateQ, run by the
\* thread whose state is thr.  thr2 is that thread's state afterwards.
InfoStatement(thr, thr2) ==
  LET c == calculateQ(left_info_, right_info_)
  IN /\ pc = "run"
     /\ ev' = Step
     /\ CASE thr.at = "test" ->
               IF NeedsQ(left_info_, right_info_, Q_initialized_)
                 THEN /\ nCalcQ < MaxCalcQ
                      /\ nCalcQ' = nCalcQ + 1
                      /\ thr2 = At(thr, "Q")
                      /\ UNCHANGED calib
                 ELSE /\ thr2 = At(thr, "idle")
                      /\ UNCHANGED <<calib, nCalcQ>>
          [] thr.at = "Q" ->
               /\ Q_' = c.Q
               /\ thr2 = At(thr, "width")
               /\ UNCHANGED <<full_image_size_, Q_initialized_, nCalcQ>>
          [] thr.at = "width" ->
               /\ full_image_size_' = <<c.size[1], full_image_size_[2]>>
               /\ thr2 = At(thr, "height")
               /\ UNCHANGED <<Q_, Q_initialized_, nCalcQ>>
          [] thr.at = "height" ->
               /\ full_image_size_' = <<full_image_size_[1], c.size[2]>>
               /\ thr2 = At(thr, "flag")
               /\ UNCHANGED <<Q_, Q_initialized_, nCalcQ>>
          [] thr.at = "flag" ->
               /\ Q_initialized_' = c.initialized
               /\ thr2 = At(thr, "idle")
               /\ UNCHANGED <<Q_, full_image_size_, nCalcQ>>
          [] OTHER -> FALSE

LeftStatement ==
  /\ InfoStatement(lthr, lthr')
  /\ UNCHANGED <<pc, params, world_frame_, left_info_, right_info_, tfBuf,
                 leftSeen, rightSeen, now, last_hit, handles, rthr, fthr>>

RightStatement ==
  /\ InfoStatement(rthr, rthr')
  /\ UNCHANGED <<pc, params, world_frame_, left_info_, right_info_, tfBuf,
                 leftSeen, rightSeen, now, last_hit, handles, lthr, fthr>>

\* Entry of a frame callback: insertDisparityImageWithTf tests Q_initialized_
\* (lines 213-217) and returns or goes on to lookupTransform;
\* insertPointcloudWithTf goes on at once.
FrameEnter(op, m) ==
  /\ pc = "run"
  /\ fthr.at = "idle"
  /\ IF op = "disparity" /\ ~Q_initialized_
       THEN insertDisparityImageWithTf(m)
       ELSE /\ fthr' = [at |-> "can", msg |-> m, op |-> op,
                        ready |-> Q_initialized_, can |-> FALSE]
            /\ ev' = Step
            /\ UNCHANGED <<pc, params, world_frame_, calib, left_info_,
                           right_info_, tfBuf, leftSeen, rightSeen, nCalcQ,
                           now, last_hit, handles, lthr, rthr>>

\* Line 248: the availability check.
FrameCan ==
  /\ pc = "run"
  /\ fthr.at = "can"
  /\ fthr' = [fthr EXCEPT !.at = "lookup",
                          !.can = canTransform(tfBuf, world_frame_,
                                               fthr.msg.frame_id,
                                               fthr.msg.stamp)]
  /\ ev' = Step
  /\ UNCHANGED <<pc, params, world_frame_, calib, left_info_, right_info_,
                 tfBuf, leftSeen, rightSeen, nCalcQ, now, last_hit, handles,
                 lthr, rthr>>

\* Lines 253-265 and the caller's insert, which reads Q_ and
\* full_image_size_ as they are then.
FrameLookup ==
  LET m == fthr.msg
      r == lookupTransformFrom(tfBuf, m.frame_id, world_frame_, m.stamp,
                               fthr.can)
      call == IF fthr.op = "disparity"
                THEN insertDisparityImage(r.transform, m, Q_,
                                          full_image_size_)
                ELSE insertPointcloud(r.transform, m)
  IN /\ pc = "run"
     /\ fthr.at = "lookup"
     /\ fthr' = Idle
     /\ ev' = Event(fthr.op, m, fthr.ready, Looked(r, call), FALSE, FALSE)
     /\ UNCHANGED <<pc, params, world_frame_, calib, left_info_, right_info_,
                    tfBuf, leftSeen, rightSeen, nCalcQ, now, last_hit,
                    handles, lthr, rthr>>

\* The provider's cache lets go of the oldest entry of a pair of frames.
TfExpire(e) ==
  /\ pc = "run"
  /\ e \in tfBuf
  /\ \A o \in tfBuf : (o[1] = e[1] /\ o[2] = e[2]) => e[3] <= o[3]
  /\ tfBuf' = tfBuf \ {e}
  /\ ev' = Event("tf", NoMsg, Q_initialized_, Dropped({}), FALSE, FALSE)
  /\ UNCHANGED <<pc, params, world_frame_, calib, left_info_, right_info_,
                 leftSeen, rightSeen, nCalcQ, now, last_hit, handles,
                 threads>>

LeftStoreArrival == \E i \in LeftInfos : LeftStore(i)
RightStoreArrival == \E i \in RightInfos : RightStore(i)
DisparityEnter == \E m \in Msgs : FrameEnter("disparity", m)
PointcloudEnter == \E m \in Msgs : FrameEnter("pointcloud", m)
TfExpiry == \E e \in TfEntries : TfExpire(e)
\* Disparity images of the camera frame that ask for the latest transform.
LatestMsgs == {m \in Msgs : m.stamp = 0 /\ m.frame_id \in TfChildren}
DisparityEnterLatest == \E m \in LatestMsgs : FrameEnter("disparity", m)

\* Camera-info callbacks and disparity dispatches, all interleaved.
NextConc ==
  \/ Construct
  \/ LeftStoreArrival
  \/ LeftStatement
  \/ RightStoreArrival
  \/ RightStatement
  \/ DisparityEnterLatest
  \/ FrameCan
  \/ FrameLookup
  \/ TfArrival

\* Start-ups with the default frame and image size.
InitConc == Members({p \in ParamSets(QParamsFew) :
                       AllOrNone(p) /\ ~p.tf_frame.set})

SpecConc == InitConc /\ [][NextConc]_vars

\* Frame dispatches against a provider that gains and loses entries while a
\* lookup is under way.
NextTf ==
  \/ Construct
  \/ DisparityEnter
  \/ PointcloudEnter
  \/ FrameCan
  \/ FrameLookup
  \/ TfArrival
  \/ TfExpiry

SpecTf == Init /\ [][NextTf]_vars

\* ------------------------------------------------------------------ clock
\* The clock read by the throttled warning moves on by one tick.
Tick ==
  /\ pc = "run"
  /\ now < ThrottlePeriod + ClockTicks
  /\ now' = now + 1
  /\ ev' = Event("tick", NoMsg, Q_initialized_, Dropped({}), FALSE, FALSE)
  /\ UNCHANGED <<pc, params, world_frame_, calib, left_info_, right_info_,
                 tfBuf, leftSeen, rightSeen, nCalcQ, last_hit, handles,
                 threads>>

\* Camera infos and disparity images while time passes.
NextT ==
  \/ Construct
  \/ LeftArrival
  \/ RightArrival
  \/ DisparityArrival
  \/ Tick

SpecT == Init /\ [][NextT]_vars

\* ================================================================== claims
ExplicitGiven == params.Q.set
ExplicitAccepted == params.Q.set /\ Len(params.Q.val) = QSize
ExplicitMalformed == params.Q.set /\ Len(params.Q.val) # QSize
IsInfoOp(e) == e.op \in {"left", "right"}
IsFrameOp(e) == e.op \in {"disparity", "pointcloud"}

\* C1: with no explicit Q configured, calculateQ runs at most once over any
\* sequence of camera-info arrivals, and once Q_initialized_ is true no step
\* changes Q_ or Q_initialized_ (so it turns true at most once).
C1_ReadyAtMostOnce ==
  [][~ExplicitGiven =>
       /\ nCalcQ' <= 1
       /\ (ev'.calc => ~Q_initialized_ /\ Q_initialized_')
       /\ (Q_initialized_ => Q_initialized_' /\ Q_' = Q_)]_vars
C1_Witness ==
  /\ ~ExplicitGiven
  /\ IsInfoOp(ev) /\ ev.ready /\ ~ev.calc
  /\ Q_initialized_ /\ nCalcQ = 1
  /\ Q_ # getQForROSCameras(left_info_, right_info_)

\* C2: when the explicit 16-value Q was accepted at start-up, calculateQ is
\* never executed, Q_ keeps the explicit matrix and Q_initialized_ stays true
\* over every later sequence of camera-info arrivals.
C2_ExplicitShortCircuits ==
  [][(pc = "run" /\ ExplicitAccepted) =>
       /\ Q_initialized_ /\ Q_initialized_'
       /\ nCalcQ = 0 /\ nCalcQ' = 0 /\ ~ev'.calc
       /\ Q_' = Q_]_vars
C2_Witness ==
  /\ ExplicitAccepted
  /\ IsInfoOp(ev) /\ left_info_.valid /\ right_info_.valid
  /\ Q_initialized_ /\ nCalcQ = 0
  /\ \A i, j \in 0..3 : Coeff(Q_, i, j) = params.Q.val[4 * i + j + 1]

\* C3: a disparity image handled while Q_initialized_ is false makes no
\* provider query and no call to insertDisparityImage; one handled while it
\* is true is forwarded with the current Q_ and full_image_size_ whenever its
\* transform lookup succeeds.
C3_DisparityGate ==
  ev.op = "disparity" =>
    /\ ev.ready = Q_initialized_
    /\ ~ev.ready => (~ev.looked /\ ev.queries = <<>> /\ ev.call = NoCall)
    /\ ev.ready => ev.looked
    /\ (ev.ready /\ ev.ret) =>
         /\ ev.call.fn = "insertDisparityImage"
         /\ ev.call.msg = ev.msg
         /\ ev.call.Q = Q_
         /\ ev.call.size = full_image_size_
C3_Witness ==
  /\ ev.op = "disparity" /\ ev.ready /\ ev.ret
  /\ nCalcQ = 1
  /\ ev.call.fn = "insertDisparityImage"
  /\ ev.call.Q = getQForROSCameras(left_info_, right_info_)

\* C4: insertPointcloudWithTf calls insertPointcloud exactly when
\* lookupTransform returned true, which depends on the provider alone and
\* not on Q_initialized_.
C4_PointcloudUngated ==
  ev.op = "pointcloud" =>
    /\ ev.looked
    /\ (ev.call.fn = "insertPointcloud") <=> ev.ret
    /\ ev.ret <=> canTransform(tfBuf, world_frame_, ev.msg.frame_id, 0)
    /\ ev.call.fn \in {"none", "insertPointcloud"}
    /\ ev.ret => ev.call.msg = ev.msg
C4_Witness ==
  /\ ev.op = "pointcloud"
  /\ ~Q_initialized_
  /\ ev.call.fn = "insertPointcloud"

\* C5: when the provider has no transform at the message's time stamp but has
\* one at "latest", lookupTransform returns true with the latest transform
\* and warns that the latest one is used; it does not fail.
C5_LatestFallback ==
  (/\ IsFrameOp(ev) /\ ev.looked
   /\ ~canTransform(tfBuf, world_frame_, ev.msg.frame_id, ev.msg.stamp)
   /\ canTransform(tfBuf, world_frame_, ev.msg.frame_id, 0)) =>
    /\ ev.ret
    /\ WarnLatestTf \in ev.log
    /\ ErrTf \notin ev.log
    /\ ev.call.T = PoseOf(world_frame_, ev.msg.frame_id,
                          MaxOf(TfStamps(tfBuf, world_frame_,
                                         ev.msg.frame_id)))
C5_Witness ==
  /\ IsFrameOp(ev) /\ ev.looked /\ ev.ret
  /\ WarnLatestTf \in ev.log
  /\ Cardinality(TfStamps(tfBuf, world_frame_, ev.msg.frame_id)) = 2
  /\ ev.msg.stamp > MaxTime

\* C6: when the provider has no transform between the two frames at all,
\* lookupTransform returns false and the frame causes no call into the
\* mapping engine; a frame that follows a failed lookup and has a transform
\* is dispatched as usual.
C6_LookupFailureDrops ==
  [][/\ (/\ IsFrameOp(ev') /\ ev'.looked
         /\ TfStamps(tfBuf', world_frame_', ev'.msg.frame_id) = {}) =>
          (~ev'.ret /\ ev'.call = NoCall /\ ErrTf \in ev'.log)
     /\ (/\ IsFrameOp(ev) /\ ev.looked /\ ~ev.ret
         /\ IsFrameOp(ev') /\ ev'.looked
         /\ TfStamps(tfBuf', world_frame_', ev'.msg.frame_id) # {}) =>
          (/\ ev'.ret
           /\ ev'.call.fn = IF ev'.op = "disparity"
                              THEN "insertDisparityImage"
                              ELSE "insertPointcloud"
           /\ ev'.call.msg = ev'.msg)
     /\ (IsFrameOp(ev') /\ ev'.looked /\ ~ev'.ret) =>
          (pc' = "run" /\ calib' = calib /\ tfBuf' = tfBuf)]_vars
C6_Witness ==
  /\ ev.op = "disparity" /\ ev.ready /\ ev.looked
  /\ TfStamps(tfBuf, world_frame_, ev.msg.frame_id) = {}
  /\ tfBuf # {}
  /\ ~ev.ret /\ ev.call = NoCall

\* C7: for every coefficient list whose length is not 16, the start-up set of
\* the explicit matrix reports an error and leaves Q_ and Q_initialized_ as
\* they were before the call.
C7_MalformedRejected ==
  [][(pc = "init" /\ pc' = "run" /\ ExplicitMalformed) =>
       /\ ErrInvalidQ \in ev'.log
       /\ Q_' = Q_
       /\ Q_initialized_' = Q_initialized_]_vars
C7_Witness ==
  /\ ev.op = "construct" /\ ExplicitMalformed
  /\ Len(params.Q.val) > QSize
  /\ ErrInvalidQ \in ev.log
  /\ Q_ = Identity4 /\ ~Q_initialized_

\* C8: for every 16-element coefficient list v, right after construction
\* Q_(i,j) = v[4*i+j] for all i, j in 0..3 and Q_initialized_ is true, before
\* any camera info has been processed.
C8_RowMajorReshape ==
  (ev.op = "construct" /\ ExplicitAccepted) =>
    /\ \A i, j \in 0..3 : Coeff(Q_, i, j) = params.Q.val[4 * i + j + 1]
    /\ Q_initialized_
    /\ ~leftSeen /\ ~rightSeen /\ nCalcQ = 0
C8_Witness ==
  /\ ev.op = "construct" /\ ExplicitAccepted
  /\ Q_initialized_
  /\ Coeff(Q_, 0, 1) # Coeff(Q_, 1, 0)
  /\ ev.log = {}

\* C9: after a malformed explicit list was rejected, Q_initialized_ is true
\* exactly when a left and a right descriptor are stored, it turns true on
\* the arrival that completes the pair, with Q_ the matrix derived from the
\* stored pair and full_image_size_ the left descriptor's width and height.
C9_DerivedAfterRejection ==
  [][(ExplicitMalformed /\ pc' = "run") =>
       /\ Q_initialized_' <=> (left_info_'.valid /\ right_info_'.valid)
       /\ (~Q_initialized_ /\ Q_initialized_') =>
            /\ IsInfoOp(ev') /\ ev'.calc /\ ~ev'.had
            /\ ~(left_info_.valid /\ right_info_.valid)
            /\ Q_' = getQForROSCameras(left_info_', right_info_')
            /\ full_image_size_' = <<left_info_'.width, left_info_'.height>>]_vars
C9_Witness ==
  /\ ExplicitMalformed
  /\ ev.op = "right" /\ ev.calc
  /\ Q_initialized_
  /\ left_info_.width # right_info_.width
  /\ full_image_size_ = <<left_info_.width, left_info_.height>>

\* C10: with no explicit Q in force, Q_initialized_ is true exactly when at
\* least one left and at least one right camera info have been received, in
\* whatever order and however often one side repeated.
C10_ReadyIffBothSeen ==
  ~ExplicitAccepted => (Q_initialized_ <=> (leftSeen /\ rightSeen))
C10_Witness ==
  /\ ~ExplicitGiven
  /\ ev.op = "left" /\ ev.had
  /\ ~rightSeen /\ ~Q_initialized_

\* C11: every call of lookupTransform makes exactly one availability query
\* followed by exactly one transform query, whether it succeeds or fails; a
\* dispatch that does not call it makes no query.
C11_OneQueryEach ==
  /\ ev.looked =>
       /\ Len(ev.queries) = 2
       /\ ev.queries[1].fn = "canTransform"
       /\ ev.queries[2].fn = "lookupTransform"
  /\ ~ev.looked => ev.queries = <<>>
C11_Witness ==
  /\ IsFrameOp(ev) /\ ev.looked /\ ~ev.ret
  /\ WarnLatestTf \in ev.log /\ ErrTf \in ev.log
  /\ Len(ev.queries) = 2

\* C12: the transform query is made at the message's own time stamp, without
\* the "using latest" warning, exactly when the availability check at that
\* stamp succeeds, and at time zero with the warning exactly when it fails;
\* every query has world_frame_ as target and the message's frame id as
\* source.
C12_QueryTimeAndFrames ==
  ev.looked =>
    LET can == canTransform(tfBuf, world_frame_, ev.msg.frame_id,
                            ev.msg.stamp)
    IN /\ \A k \in 1..Len(ev.queries) :
            /\ ev.queries[k].to = world_frame_
            /\ ev.queries[k].from = ev.msg.frame_id
       /\ ev.queries[1].time = ev.msg.stamp
       /\ can => (ev.queries[2].time = ev.msg.stamp
                  /\ WarnLatestTf \notin ev.log)
       /\ ~can => (ev.queries[2].time = 0 /\ WarnLatestTf \in ev.log)
C12_Witness ==
  /\ ev.op = "disparity" /\ ev.looked /\ ev.ret
  /\ world_frame_ = "map"
  /\ ev.msg.stamp # 0
  /\ ev.queries[2].time = ev.msg.stamp
  /\ WarnLatestTf \notin ev.log

\* C13: insertDisparityImageWithTf and insertPointcloudWithTf leave Q_,
\* Q_initialized_, full_image_size_, left_info_, right_info_ and world_frame_
\* as they were, whether the frame is dropped for not-ready, dropped for a
\* failed lookup, or forwarded.
C13_DispatchKeepsCalibration ==
  [][IsFrameOp(ev') =>
       UNCHANGED <<Q_, Q_initialized_, full_image_size_, left_info_,
                   right_info_, world_frame_>>]_vars
C13_Witness ==
  /\ ev.op = "disparity" /\ ~ev.ready
  /\ ev.call = NoCall
  /\ left_info_.valid /\ ~right_info_.valid
  /\ WarnNoCameraInfo \in ev.log

\* C14: each camera-info callback overwrites the stored descriptor of its
\* side with the one just received, on every arrival, ready or not, and
\* leaves the other side's descriptor alone; a derivation uses the two
\* descriptors stored at that moment, the most recent of each side.
C14_LastReceivedStored ==
  [][/\ ev'.op = "left" =>
          (left_info_' = ev'.info /\ right_info_' = right_info_)
     /\ ev'.op = "right" =>
          (right_info_' = ev'.info /\ left_info_' = left_info_)
     /\ ev'.calc =>
          /\ Q_' = getQForROSCameras(left_info_', right_info_')
          /\ full_image_size_' = <<left_info_'.width, left_info_'.height>>]_vars
C14_Witness ==
  /\ ev.op = "left" /\ ev.ready /\ ev.had
  /\ left_info_ = ev.info
  /\ nCalcQ = 1
  /\ full_image_size_ # <<left_info_.width, left_info_.height>>

\* C15: when the two camera-info callbacks interleave statement by
\* statement, calculateQ is entered at most once over the whole run, so Q_
\* is written at most once.
C15_AtomicLatch == nCalcQ <= 1

\* A matrix and an image size that stem from one calibration: the explicit
\* matrix with the configured size, or one derivation's matrix with the
\* width and height of the left descriptor it was derived from.
SameCalibration(Q, size) ==
  \/ /\ ExplicitAccepted
     /\ Q = RowMajorMap(params.Q.val)
     /\ size = <<Param(params.full_image_width, DefaultWidth),
                 Param(params.full_image_height, DefaultHeight)>>
  \/ \E l \in LeftInfos, r \in RightInfos :
       /\ Q = getQForROSCameras(l, r)
       /\ size = <<l.width, l.height>>

\* C16: when disparity dispatches interleave with the camera-info callbacks,
\* every call to insertDisparityImage passes a Q_ and a full_image_size_ that
\* stem from the same completed calibration.
C16_ForwardsOneCalibration ==
  (ev.op = "disparity" /\ ev.call.fn = "insertDisparityImage") =>
    SameCalibration(ev.call.Q, ev.call.size)

\* C17: while Q_initialized_ is false every disparity image is dropped
\* without a lookup, and the "no camera info" warning is logged only when at
\* least one second has passed since it was last logged.
C17_ThrottledWarning ==
  [][(ev'.op = "disparity" /\ ~Q_initialized_) =>
       /\ ev'.call = NoCall /\ ~ev'.looked
       /\ WarnNoCameraInfo \in ev'.log =>
            /\ now - last_hit >= ThrottleSeconds * TicksPerSecond
            /\ last_hit' = now
       /\ WarnNoCameraInfo \notin ev'.log => last_hit' = last_hit]_vars
C17_Witness ==
  /\ ev.op = "disparity" /\ ~ev.ready
  /\ WarnNoCameraInfo \notin ev.log
  /\ last_hit > 0
  /\ now > last_hit
  /\ now - last_hit < ThrottleSeconds * TicksPerSecond

\* C18: lookupTransform returns failure only after a query at time
\* zero was made and failed, so that no frame is dropped while the provider
\* can supply a latest transform, also when the provider changes between the
\* availability check and the transform query.
C18_FailureOnlyAfterLatest ==
  (IsFrameOp(ev) /\ ev.looked /\ ~ev.ret) =>
    /\ ev.queries[2].time = 0
    /\ ~canTransform(tfBuf, world_frame_, ev.msg.frame_id, 0)

\* C19: after start-up full_image_size_ is written only by calculateQ, which
\* sets it to the stored left descriptor's width and height in the step that
\* turns Q_initialized_ true; when the explicit Q was accepted it keeps its
\* configured (or default 752x480) value over all camera-info and frame
\* arrivals, whatever size the cameras report.
C19_SizeWrittenOnlyByCalculateQ ==
  [][pc = "run" =>
       /\ full_image_size_' # full_image_size_ =>
            IsInfoOp(ev') /\ ev'.calc
       /\ ev'.calc =>
            /\ full_image_size_' = <<left_info_'.width, left_info_'.height>>
            /\ ~Q_initialized_ /\ Q_initialized_'
       /\ ExplicitAccepted =>
            full_image_size_' =
              <<Param(params.full_image_width, DefaultWidth),
                Param(params.full_image_height, DefaultHeight)>>]_vars
C19_Witness ==
  /\ ExplicitAccepted /\ pc = "run"
  /\ left_info_.valid /\ right_info_.valid
  /\ IsFrameOp(ev) /\ ev.call # NoCall
  /\ full_image_size_ # <<left_info_.width, left_info_.height>>
  /\ full_image_size_ = <<Param(params.full_image_width, DefaultWidth),
                          Param(params.full_image_height, DefaultHeight)>>

\* C20: once advertiseServices has run, each of the six advertised services
\* is held by a service-handle member; no handle was overwritten by the
\* handle of another service.
C20_EveryServiceHeld ==
  pc = "run" =>
    \A s \in ServiceNames : \E m \in HandleMembers : handles[m] = s
====
